---- MODULE Spec2Model ----
(***************************************************************************)
(* Model of video-dl (src/main.go): a poller goroutine that watches the    *)
(* operator's self-conversation for "download <channel>" commands, one     *)
(* crawl goroutine per command that walks the channel history and          *)
(* downloads every video in 64 KiB chunks, and the final edit of the       *)
(* command message to "finished".                                          *)
(*                                                                         *)
(* Strings are sequences of one-character strings, so that the string      *)
(* functions of the program (ToLower, HasPrefix, SplitN, TrimSpace,        *)
(* TrimPrefix) are computed character by character.                        *)
(***************************************************************************)
EXTENDS Integers, Sequences, FiniteSets, TLC

VARIABLES
    conv,         \* the self-conversation on the platform: entries, oldest first
    startupTop,   \* identifier of the newest entry that existed at process start
    anyOrder,     \* TRUE: the platform may return a history window in any order
    lastMsgID,    \* pollForUpdates: the high-water mark
    pollPc,       \* pollForUpdates: "sleep" (between cycles) or "handle" (in the dispatch loop)
    newMessages,  \* pollForUpdates: the selected messages not yet handled in this cycle
    cycle,        \* the current (or last) poll cycle: response kind, mark at start, fetched list, handled ids
    dispatched,   \* identifiers handleMessage was invoked on, in invocation order
    tasks,        \* the crawl goroutines, in spawn order
    edits,        \* per crawl goroutine, the MessagesEditMessage requests it issued, in order
    crashed,      \* TRUE once an unrecovered panic has ended the process
    dirExists,    \* the videos directory exists on disk
    files,        \* the files of the videos directory: name -> content (a sequence of byte ranges)
    world,        \* the platform's content in this run: what the operator sends, the channels' size
    fnName,       \* pure-function harness: which function is applied
    fnArg,        \* pure-function harness: its argument
    fnRes         \* pure-function harness: <<>> before the call, <<result>> after it

vars == <<conv, startupTop, anyOrder, lastMsgID, pollPc, newMessages, cycle,
          dispatched, tasks, edits, crashed, dirExists, files, world, fnName, fnArg, fnRes>>

sysVars == <<conv, startupTop, anyOrder, lastMsgID, pollPc, newMessages, cycle,
             dispatched, tasks, edits, crashed, dirExists, files, world>>

fnVars == <<fnName, fnArg, fnRes>>

----------------------------------------------------------------------------
(* Bounds of the model *)

\* entries the self-conversation can hold in a run
MaxMsgs == 3
\* entries that already exist in the self-conversation at process start
MaxPre == 1
\* window of the self-conversation fetch (the program asks for 20)
PollWindow == 2
\* "download" commands the operator sends in a run (one crawl goroutine each)
MaxCmds == 2
\* pieces concatenated into a text given to handleMessage
MaxTextPieces == 4
\* pieces concatenated into a link given to parseChannelUsername
MaxLinkPieces == 4
\* consecutive failed fetches of the self-conversation that are told apart
MaxFails == 2

----------------------------------------------------------------------------
(* Strings *)

RECURSIVE Concat(_)
Concat(ss) == IF ss = <<>> THEN <<>> ELSE Head(ss) \o Concat(Tail(ss))

RECURSIVE SeqsUpTo(_, _)
SeqsUpTo(S, n) ==
    IF n = 0 THEN {<<>>}
    ELSE LET shorter == SeqsUpTo(S, n - 1)
         IN  shorter \cup {Append(s, x) : s \in shorter, x \in S}

strDownload  == <<"d","o","w","n","l","o","a","d">>
strDownloadC == <<"D","o","w","n","l","o","a","d">>
strDownloa   == <<"d","o","w","n","l","o","a">>
strSpace     == <<" ">>
strBar       == <<"b","a","r">>
strFoo       == <<"f","o","o">>
strHttps     == <<"h","t","t","p","s",":","/","/","t",".","m","e","/">>
strHttp      == <<"h","t","t","p",":","/","/","t",".","m","e","/">>
strTme       == <<"t",".","m","e","/">>
strFinished  == <<"f","i","n","i","s","h","e","d">>

UpperLetters == <<"A","B","C","D","E","F","G","H","I","J","K","L","M",
                  "N","O","P","Q","R","S","T","U","V","W","X","Y","Z">>
LowerLetters == <<"a","b","c","d","e","f","g","h","i","j","k","l","m",
                  "n","o","p","q","r","s","t","u","v","w","x","y","z">>

\* unicode.ToLower on one character
LowerChar(c) ==
    IF \E k \in 1..26 : UpperLetters[k] = c
    THEN LowerLetters[CHOOSE k \in 1..26 : UpperLetters[k] = c]
    ELSE c

\* strings.ToLower
ToLower(s) == [k \in 1..Len(s) |-> LowerChar(s[k])]

\* strings.HasPrefix
HasPrefix(s, p) == Len(s) >= Len(p) /\ SubSeq(s, 1, Len(p)) = p

\* strings.TrimPrefix: removes p once when s starts with it
TrimPrefix(s, p) == IF HasPrefix(s, p) THEN SubSeq(s, Len(p) + 1, Len(s)) ELSE s

\* unicode.IsSpace on the characters of the model
IsSpace(c) == c \in {" ", "\t", "\n", "\r"}

RECURSIVE TrimLeft(_)
TrimLeft(s) == IF s # <<>> /\ IsSpace(Head(s)) THEN TrimLeft(Tail(s)) ELSE s

RECURSIVE TrimRight(_)
TrimRight(s) ==
    IF s # <<>> /\ IsSpace(s[Len(s)]) THEN TrimRight(SubSeq(s, 1, Len(s) - 1)) ELSE s

\* strings.TrimSpace
TrimSpace(s) == TrimRight(TrimLeft(s))

\* strings.SplitN(s, sep, 2) for a one-character separator
SplitN2(s, sep) ==
    IF \E k \in 1..Len(s) : s[k] = sep
    THEN LET k == CHOOSE j \in 1..Len(s) : s[j] = sep /\ \A h \in 1..(j - 1) : s[h] # sep
         IN  <<SubSeq(s, 1, k - 1), SubSeq(s, k + 1, Len(s))>>
    ELSE <<s>>

----------------------------------------------------------------------------
(* parseChannelUsername and the command test of handleMessage *)

\* faulty variant: the surrounding whitespace is not trimmed
parseChannelUsernameNoTrim(link) ==
    TrimPrefix(TrimPrefix(TrimPrefix(link, strHttps), strHttp), strTme)

\* faulty variant: the "http://t.me/" prefix is not removed
parseChannelUsernameNoHttp(link) ==
    TrimPrefix(TrimPrefix(TrimSpace(link), strHttps), strTme)

parseChannelUsername(link) ==
    TrimPrefix(TrimPrefix(TrimPrefix(TrimSpace(link), strHttps), strHttp), strTme)

NoCrawl == [spawn |-> FALSE, channelUsername |-> <<>>]

\* handleMessage up to the go statement: whether a crawl goroutine is started
\* for the text, and for which channelUsername
handleMessage(text) ==
    IF text = <<>> THEN NoCrawl
    ELSE IF HasPrefix(ToLower(text), strDownload \o strSpace)
         THEN LET parts == SplitN2(text, " ")
              IN  IF Len(parts) < 2 THEN NoCrawl
                  ELSE [spawn |-> TRUE, channelUsername |-> parseChannelUsername(parts[2])]
         ELSE NoCrawl

----------------------------------------------------------------------------
(* The platform: the self-conversation *)

\* text of the command the operator sends: "Download https://t.me/bar"
cmdText == strDownloadC \o strSpace \o strHttps \o strBar
\* a text that is no command: "downloa bar"
otherText == strDownloa \o strSpace \o strBar

\* what an entry of the self-conversation can be: a regular message with a
\* text (a command, another text, no text) or a service message
SelfEntries ==
    {[kind |-> "Message", text |-> t] : t \in {cmdText, otherText, <<>>}}
        \cup {[kind |-> "MessageService", text |-> <<>>]}

IsCommandEntry(e) == e.kind = "Message" /\ handleMessage(e.text).spawn

\* identifiers are assigned by the platform in increasing order
WithIds(es) == [k \in 1..Len(es) |-> [id |-> k, kind |-> es[k].kind, text |-> es[k].text]]

CommandCount(c) == Cardinality({k \in 1..Len(c) : IsCommandEntry(c[k])})

Reverse(s) == [k \in 1..Len(s) |-> s[Len(s) + 1 - k]]

\* the newest PollWindow entries of the conversation, newest first
Window(c) ==
    LET n == IF Len(c) < PollWindow THEN Len(c) ELSE PollWindow
    IN  [k \in 1..n |-> c[Len(c) + 1 - k]]

Orderings(s) ==
    {[k \in 1..Len(s) |-> s[f[k]]] :
        f \in {g \in [1..Len(s) -> 1..Len(s)] : \A a, b \in 1..Len(s) : a # b => g[a] # g[b]}}

\* what MessagesGetHistory on the self-conversation can answer: an error, a
\* response that is no *tg.MessagesMessages, or the window of the newest entries
SelfHistoryResponses ==
    {[kind |-> "err", messages |-> <<>>], [kind |-> "other", messages |-> <<>>]}
        \cup {[kind |-> "MessagesMessages", messages |-> w] :
                w \in IF anyOrder THEN Orderings(Window(conv)) ELSE {Window(conv)}}

----------------------------------------------------------------------------
(* pollForUpdates *)

\* faulty variant: the comparison with the mark is not strict
IsNewNotStrict(m, mark) == m.id >= mark

\* the selection test of the poll cycle
IsNew(m, mark) == m.id > mark

RECURSIVE SelectSeq2(_, _)
SelectSeq2(s, mark) ==
    IF s = <<>> THEN <<>>
    ELSE IF Head(s).kind = "Message" /\ IsNew(Head(s), mark)
         THEN <<Head(s)>> \o SelectSeq2(Tail(s), mark)
         ELSE SelectSeq2(Tail(s), mark)

\* faulty variant: the fetched list is walked front to back
SelectNewNoReverse(messages, mark) == SelectSeq2(messages, mark)

\* the selection loop: walks the fetched list from its last entry to its
\* first and keeps the regular messages that are new
SelectNew(messages, mark) == SelectSeq2(Reverse(messages), mark)

\* faulty variant: the mark is set to the handled message's identifier unconditionally
AdvanceMarkAlways(mark, m) == m.id

\* the mark update after handleMessage
AdvanceMark(mark, m) == IF m.id > mark THEN m.id ELSE mark

\* faulty variant: the handler waits for the crawls it started
HandlerWaits(tks) == \A t \in 1..Len(tks) : tks[t].pc = "done"

\* handleMessage starts the crawl with a go statement: it returns to the
\* poll loop whatever the state of the goroutines
HandlerReturned(tks) == TRUE

\* faulty variant: the crawl starts at the resolution, the directory not ensured
FirstStepResolve == "resolve"

\* the first step of downloadChannelVideos
FirstStep == "ensureDir"

NewTask(m, channelUsername) ==
    [msgID |-> m.id, channelUsername |-> channelUsername, pc |-> FirstStep,
     offsetID |-> 0, page |-> <<>>, i |-> 0, offset |-> 0, err |-> "nil",
     attempted |-> <<>>, seen |-> {}, reqs |-> <<>>, resps |-> <<>>, chunks |-> <<>>,
     dlErr |-> "nil", saved |-> <<>>, paths |-> <<>>, waits |-> 0, lastPage |-> "none",
     madeDir |-> FALSE]

NoCycle == [res |-> "none", startMark |-> 0, fetched |-> <<>>, handled |-> <<>>, fails |-> 0]

\* the count of consecutive failed fetches after one more (told apart up to
\* the bound of the run)
OneMoreFailure(n) == IF n < world.maxFails THEN n + 1 ELSE n

\* faulty variant: a failed fetch ends the poll loop
ExitLoop == "exit"

\* `continue`: the poll loop goes to its next iteration, which starts with the sleep
ContinueLoop == "sleep"

\* the operator (or the platform) adds an entry to the self-conversation
SendMessage ==
    /\ Len(conv) < MaxMsgs
    /\ \E e \in world.entries :
        /\ IsCommandEntry(e) => CommandCount(conv) < MaxCmds
        /\ conv' = Append(conv, [id |-> Len(conv) + 1, kind |-> e.kind, text |-> e.text])
    /\ UNCHANGED <<startupTop, anyOrder, lastMsgID, pollPc, newMessages, cycle,
                   dispatched, tasks, edits, crashed, dirExists, files, world, fnVars>>

\* one poll cycle up to the dispatch loop: sleep, fetch, type test, selection
PollFetch ==
    /\ ~crashed
    /\ pollPc = "sleep"
    /\ HandlerReturned(tasks)
    /\ \E resp \in SelfHistoryResponses :
        IF resp.kind = "MessagesMessages"
        THEN LET sel == SelectNew(resp.messages, lastMsgID)
             IN  /\ cycle' = [res |-> "ok", startMark |-> lastMsgID,
                              fetched |-> resp.messages, handled |-> <<>>, fails |-> 0]
                 /\ newMessages' = sel
                 /\ pollPc' = IF sel = <<>> THEN "sleep" ELSE "handle"
        ELSE /\ cycle' = [res |-> resp.kind, startMark |-> lastMsgID,
                          fetched |-> <<>>, handled |-> <<>>,
                          fails |-> IF resp.kind = "err" THEN OneMoreFailure(cycle.fails)
                                    ELSE 0]
             /\ pollPc' = ContinueLoop
             /\ UNCHANGED newMessages
    /\ UNCHANGED <<conv, startupTop, anyOrder, lastMsgID, dispatched, tasks, edits,
                   crashed, dirExists, files, world, fnVars>>

\* one iteration of the dispatch loop: handleMessage on the next selected
\* message, then the mark update
HandleNext ==
    /\ ~crashed
    /\ pollPc = "handle"
    /\ newMessages # <<>>
    /\ HandlerReturned(tasks)
    /\ LET m == Head(newMessages)
           h == handleMessage(m.text)
       IN  /\ dispatched' = Append(dispatched, m.id)
           /\ cycle' = [cycle EXCEPT !.handled = Append(@, m.id)]
           /\ tasks' = IF h.spawn THEN Append(tasks, NewTask(m, h.channelUsername))
                       ELSE tasks
           /\ edits' = IF h.spawn THEN Append(edits, <<>>) ELSE edits
           /\ lastMsgID' = AdvanceMark(lastMsgID, m)
           /\ newMessages' = Tail(newMessages)
           /\ pollPc' = IF Tail(newMessages) = <<>> THEN "sleep" ELSE "handle"
    /\ UNCHANGED <<conv, startupTop, anyOrder, crashed, dirExists, files, world, fnVars>>

----------------------------------------------------------------------------
(* The platform: channel resolution, channel history, file chunks *)

\* newest message identifier a channel can hold
MaxChanId == 3
\* length of a history page (the program asks for 50)
PageLimit == 2
\* full blocks a file can hold
MaxBlocks == 2

\* blockSize of downloadOneVideo
blockSize == 65536
\* size of a last, short chunk
ShortChunk == 32000

\* what ContactsResolveUsername can answer: an error, no chat, and a first
\* chat that is a *tg.Channel, a *tg.Chat or another chat type
ResolveResults == {"err", "none", "Channel", "Chat", "otherChat"}

\* kinds of entries of a channel history page: a service (or empty) message,
\* and regular messages without media, with a photo, with an empty
\* document, with a document that is no video, with a video
EntryKinds == {"service", "photo", "video"}

\* the filename attributes a document can carry: none, or one
strClip == "clip.mp4"
FilenameAttrs == {<<>>, <<strClip>>}

IsMessage(e) == e.kind # "service"
HasMedia(e) == e.kind \notin {"service", "text"}
IsDocumentMedia(e) == e.kind \in {"docEmpty", "doc", "video"}
DocumentNotEmpty(e) == e.kind \in {"doc", "video"}
isVideoDocument(e) == e.kind = "video"

\* the tests of the page loop that lead to downloadOneVideo
IsVideoItem(e) ==
    IsMessage(e) /\ HasMedia(e) /\ IsDocumentMedia(e) /\ DocumentNotEmpty(e)
        /\ isVideoDocument(e)

IsDescending(ids) == \A k \in 1..(Len(ids) - 1) : ids[k] > ids[k + 1]

\* what an entry of a page can be: its kind, and for a video the filename
\* attributes of its document
EntryShapes ==
    {[kind |-> k, attrs |-> <<>>] : k \in world.kinds}
        \cup {[kind |-> k, attrs |-> a] : k \in world.kinds \cap {"video"}, a \in world.names}

\* pages the platform can return for a cursor: up to PageLimit entries,
\* newest first, all older than the cursor (any entry when the cursor is 0)
Pages(offsetID) ==
    LET top == IF offsetID = 0 THEN world.chanTop ELSE offsetID - 1
        idSeqs == {ids \in SeqsUpTo(world.minId..top, world.pageLimit) : IsDescending(ids)}
    IN  UNION {{[k \in 1..Len(ids) |->
                    [id |-> ids[k], kind |-> sh[k].kind, attrs |-> sh[k].attrs]] :
                    sh \in [1..Len(ids) -> EntryShapes]} : ids \in idSeqs}

\* what MessagesGetHistory on the channel can answer
HistoryResponses(offsetID) ==
    {[kind |-> "err", messages |-> <<>>], [kind |-> "other", messages |-> <<>>]}
        \cup {[kind |-> "MessagesChannelMessages", messages |-> p] : p \in Pages(offsetID)}

\* what UploadGetFile can answer at an offset: an error, a response that is
\* no *tg.UploadFile, or up to blockSize bytes
ChunkResponses(offset) ==
    {[kind |-> "err", len |-> 0], [kind |-> "other", len |-> 0],
     [kind |-> "UploadFile", len |-> 0], [kind |-> "UploadFile", len |-> ShortChunk]}
        \cup (IF offset < world.blocks * blockSize
              THEN {[kind |-> "UploadFile", len |-> blockSize]} ELSE {})

----------------------------------------------------------------------------
(* The file system: a file's content is a sequence of byte ranges, each    *)
(* [src, from, len]: len bytes of document src starting at its byte from;  *)
(* src = Hole stands for the zero bytes of a gap                           *)

Hole == -1

NoFiles == [n \in {} |-> <<>>]

\* the bytes UploadGetFile returned for document doc at an offset
Payload(doc, offset, len) == [src |-> doc, from |-> offset, len |-> len]

RECURSIVE Size(_)
Size(c) == IF c = <<>> THEN 0 ELSE Head(c).len + Size(Tail(c))

RECURSIVE Take(_, _)
\* the first n bytes of a content
Take(c, n) ==
    IF n <= 0 \/ c = <<>> THEN <<>>
    ELSE IF Head(c).len <= n THEN <<Head(c)>> \o Take(Tail(c), n - Head(c).len)
    ELSE <<[Head(c) EXCEPT !.len = n]>>

RECURSIVE Drop(_, _)
\* a content without its first n bytes
Drop(c, n) ==
    IF c = <<>> THEN <<>>
    ELSE IF n <= 0 THEN c
    ELSE IF Head(c).len <= n THEN Drop(Tail(c), n - Head(c).len)
    ELSE <<[Head(c) EXCEPT !.from = IF Head(c).src = Hole THEN 0 ELSE @ + n,
                           !.len = @ - n]>> \o Tail(c)

RECURSIVE Merge(_)
\* the same bytes with adjacent ranges joined: equal contents have equal
\* merged forms
Merge(c) ==
    IF Len(c) < 2 THEN c
    ELSE LET a == c[1]
             b == c[2]
             joins == a.src = b.src /\ (a.src = Hole \/ a.from + a.len = b.from)
         IN  IF joins THEN Merge(<<[a EXCEPT !.len = a.len + b.len]>> \o Tail(Tail(c)))
             ELSE <<a>> \o Merge(Tail(c))

SameBytes(c, d) == Merge(c) = Merge(d)

\* faulty variant: the file is opened without truncation
CreateKeep(fs, name) ==
    [n \in DOMAIN fs \cup {name} |-> IF n \in DOMAIN fs THEN fs[n] ELSE <<>>]

\* os.Create: the file exists afterwards and is empty (O_CREATE|O_TRUNC)
Create(fs, name) ==
    [n \in DOMAIN fs \cup {name} |-> IF n = name THEN <<>> ELSE fs[n]]

\* f.Write at the position of the file handle: the bytes replace what the
\* file holds there, and a position past the end leaves a gap of zero bytes
WriteAt(fs, name, pos, seg) ==
    LET c == fs[name]
        gap == IF pos > Size(c) THEN <<[src |-> Hole, from |-> 0, len |-> pos - Size(c)]>>
               ELSE <<>>
    IN  [fs EXCEPT ![name] = Take(c, pos) \o gap \o <<seg>> \o Drop(c, pos + seg.len)]

----------------------------------------------------------------------------
(* The crawl goroutine: downloadChannelVideos, downloadOneVideo, the edit *)

\* the fields of a task that only record what its downloads and fetches
\* did are kept on the platforms on which they are looked at
Recorded(tk) ==
    IF world.history THEN tk
    ELSE [tk EXCEPT !.reqs = <<>>, !.resps = <<>>, !.chunks = <<>>, !.dlErr = "nil",
                    !.saved = <<>>, !.paths = <<>>, !.waits = 0, !.lastPage = "none",
                    !.madeDir = FALSE]

SetTask(t, tk) == tasks' = [tasks EXCEPT ![t] = Recorded(tk)]

\* the crawl returns err (nil included); the goroutine goes on to the edit
Return(tk, err) == [tk EXCEPT !.pc = "edit", !.err = err, !.page = <<>>, !.i = 0]

\* index of the next video item of the page below index i, 0 when there is none
NextVideoBelow(page, i) ==
    IF \E j \in 1..(i - 1) : IsVideoItem(page[j])
    THEN CHOOSE j \in 1..(i - 1) :
            IsVideoItem(page[j]) /\ \A h \in (j + 1)..(i - 1) : ~IsVideoItem(page[h])
    ELSE 0

\* the cursor update panics when the last entry of the page is no *tg.Message
PageEndPanics(page) == ~IsMessage(page[Len(page)])

\* faulty variant: the filename attributes are ignored
fileNameDefault(e) == "video"

\* downloadOneVideo: "video", or the value of the last filename attribute
fileName(e) == IF e.attrs = <<>> THEN "video" ELSE e.attrs[Len(e.attrs)]

\* the document and the destination of the download a task is in
CurrentDoc(tk) == tk.page[tk.i].id
outputPath(tk) == fileName(tk.page[tk.i])

\* faulty variant: the cursor is taken from the first entry of the page
NewestID(page) == page[1].id

\* oldestID: the identifier of the last entry of the page
OldestID(page) == page[Len(page)].id

\* the page loop from index i - 1 down: up to the next call of
\* downloadOneVideo, or through the cursor update to the next fetch
Continue(tk, i) ==
    LET j == NextVideoBelow(tk.page, i)
    IN  IF j # 0
        THEN [tk EXCEPT !.pc = "create", !.i = j, !.offset = 0,
                        !.attempted = Append(@, tk.page[j].id),
                        !.paths = Append(@, fileName(tk.page[j])),
                        !.reqs = <<>>, !.resps = <<>>, !.chunks = <<>>]
        ELSE LET oldestID == OldestID(tk.page)
             IN  IF oldestID = 0 THEN Return([tk EXCEPT !.offsetID = oldestID], "nil")
                 ELSE [tk EXCEPT !.pc = "fetch", !.offsetID = oldestID, !.page = <<>>, !.i = 0]

ContinuePanics(tk, i) == NextVideoBelow(tk.page, i) = 0 /\ PageEndPanics(tk.page)

\* the record of a download that returned nil: the document, the name of
\* its file and the chunks it wrote
Saved(tk) ==
    [n |-> Len(tk.attempted), id |-> CurrentDoc(tk), name |-> outputPath(tk),
     content |-> tk.chunks]

\* faulty variant: a failed download ends the crawl with the error
DownloadReturnedAbort(tk, err) ==
    IF err = "nil" THEN [tk EXCEPT !.pc = "wait", !.dlErr = err, !.saved = Append(@, Saved(tk))]
    ELSE Return([tk EXCEPT !.seen = @ \cup {"download"}, !.dlErr = err], "download")

\* downloadOneVideo has returned err: the result is logged, the pacing delay follows
DownloadReturned(tk, err) ==
    [tk EXCEPT !.pc = "wait", !.dlErr = err,
               !.seen = IF err = "nil" THEN @ ELSE @ \cup {"download"},
               !.saved = IF err = "nil" THEN Append(@, Saved(tk)) ELSE @]

\* the locals of a call of downloadOneVideo that has returned are gone
AfterDownload(tk) ==
    [tk EXCEPT !.offset = 0, !.reqs = <<>>, !.resps = <<>>, !.chunks = <<>>, !.dlErr = "nil"]

\* the goroutine has ended: its locals are gone
Ended(tk) ==
    [tk EXCEPT !.pc = "done", !.offsetID = 0, !.err = "nil", !.attempted = <<>>,
               !.seen = {}, !.reqs = <<>>, !.resps = <<>>, !.chunks = <<>>,
               !.dlErr = "nil", !.saved = <<>>, !.paths = <<>>, !.waits = 0,
               !.lastPage = "none", !.madeDir = FALSE]

\* faulty variant: the edit is issued only when the crawl returned no error
EditRequestsOnSuccess(tk, ok) ==
    IF tk.err # "nil" THEN <<>>
    ELSE <<[id |-> tk.msgID, text |-> strFinished, afterErr |-> FALSE, ok |-> ok]>>

\* the edit requests the goroutine issues once downloadChannelVideos has
\* returned: one, whatever the crawl returned and whether or not the edit fails
EditRequests(tk, ok) ==
    <<[id |-> tk.msgID, text |-> strFinished, afterErr |-> tk.err # "nil", ok |-> ok]>>

crawlFrame == <<conv, startupTop, anyOrder, lastMsgID, pollPc, newMessages, cycle,
                dispatched, world, fnVars>>

\* ensureDir: the directory is created when it does not exist
EnsureDir(t) ==
    /\ ~crashed
    /\ tasks[t].pc = "ensureDir"
    /\ IF dirExists
       THEN /\ SetTask(t, [tasks[t] EXCEPT !.pc = "resolve"])
            /\ UNCHANGED dirExists
       ELSE \E ok \in BOOLEAN :
            IF ok THEN /\ dirExists' = TRUE
                       /\ SetTask(t, [tasks[t] EXCEPT !.pc = "resolve", !.madeDir = TRUE])
            ELSE /\ SetTask(t, Return([tasks[t] EXCEPT !.seen = @ \cup {"mkdir"}], "mkdir"))
                 /\ UNCHANGED dirExists
    /\ UNCHANGED <<crawlFrame, edits, crashed, files>>

\* ContactsResolveUsername and the type switch on the first chat
Resolve(t) ==
    /\ ~crashed
    /\ tasks[t].pc = "resolve"
    /\ \E r \in world.resolve :
        SetTask(t, IF r = "Channel"
                   THEN [tasks[t] EXCEPT !.pc = "fetch", !.offsetID = 0, !.madeDir = FALSE]
                   ELSE Return([tasks[t] EXCEPT !.seen = @ \cup {"resolve"}], r))
    /\ UNCHANGED <<crawlFrame, edits, crashed, dirExists, files>>

\* what the last answer of MessagesGetHistory was: an error, a response of
\* another type, an empty list of channel messages, or a page
PageClass(resp) ==
    IF resp.kind # "MessagesChannelMessages" THEN resp.kind
    ELSE IF resp.messages = <<>> THEN "empty" ELSE "page"

\* the test that leaves the fetch loop: no channel message list, or an empty one
NoMoreMessages(resp) == resp.kind # "MessagesChannelMessages" \/ resp.messages = <<>>

\* faulty variant: leaving the fetch loop is reported as an error
BreakError(tk) == Return(tk, "history")

\* break out of the fetch loop: the crawl returns nil
Break(tk) == Return(tk, "nil")

\* one fetch of a history page, and the page loop up to its first download
FetchPage(t) ==
    /\ ~crashed
    /\ tasks[t].pc = "fetch"
    /\ \E resp \in HistoryResponses(tasks[t].offsetID) :
        LET tk0 == [tasks[t] EXCEPT !.lastPage = PageClass(resp)]
        IN  IF resp.kind = "err"
            THEN /\ SetTask(t, Return([tk0 EXCEPT !.seen = @ \cup {"history"}], "history"))
                 /\ UNCHANGED crashed
            ELSE IF NoMoreMessages(resp)
            THEN /\ SetTask(t, Break(tk0))
                 /\ UNCHANGED crashed
            ELSE LET tk == [tk0 EXCEPT !.page = resp.messages]
                     i == Len(resp.messages) + 1
                 IN  IF ContinuePanics(tk, i)
                     THEN crashed' = TRUE /\ UNCHANGED tasks
                     ELSE SetTask(t, Continue(tk, i)) /\ UNCHANGED crashed
    /\ UNCHANGED <<crawlFrame, edits, dirExists, files>>

\* faulty variant: the offset is not advanced
NextOffsetStuck(offset, n) == offset

\* offset += int64(len(file.Bytes))
NextOffset(offset, n) == offset + n

\* faulty variant: a short chunk does not end the transfer
LastBlockNever(n) == FALSE

\* len(file.Bytes) < blockSize: the chunk was the last one
LastBlock(n) == n < blockSize

\* downloadOneVideo: os.Create of the destination file
CreateFile(t) ==
    /\ ~crashed
    /\ tasks[t].pc = "create"
    /\ \E ok \in BOOLEAN :
        IF ok /\ dirExists
        THEN /\ files' = Create(files, outputPath(tasks[t]))
             /\ SetTask(t, [tasks[t] EXCEPT !.pc = "chunk", !.offset = 0])
        ELSE /\ SetTask(t, DownloadReturned(tasks[t], "create"))
             /\ UNCHANGED files
    /\ UNCHANGED <<crawlFrame, edits, crashed, dirExists>>

\* downloadOneVideo: one iteration of the chunk loop
GetChunk(t) ==
    /\ ~crashed
    /\ tasks[t].pc = "chunk"
    /\ \E resp \in ChunkResponses(tasks[t].offset), written \in BOOLEAN :
        LET tk0 == [tasks[t] EXCEPT
                        !.reqs = Append(@, [offset |-> tasks[t].offset, limit |-> blockSize]),
                        !.resps = Append(@, resp)]
            data == Payload(CurrentDoc(tk0), tk0.offset, resp.len)
        IN  IF resp.kind = "err"
            THEN SetTask(t, DownloadReturned(tk0, "chunk")) /\ UNCHANGED files
            ELSE IF resp.kind # "UploadFile"
            THEN SetTask(t, DownloadReturned(tk0, "type")) /\ UNCHANGED files
            ELSE IF resp.len = 0
            THEN SetTask(t, DownloadReturned(tk0, "nil")) /\ UNCHANGED files
            ELSE IF ~written
            THEN SetTask(t, DownloadReturned(tk0, "write")) /\ UNCHANGED files
            ELSE LET tk == [tk0 EXCEPT !.offset = NextOffset(@, resp.len),
                                      !.chunks = Append(@, data)]
                 IN  /\ files' = WriteAt(files, outputPath(tk0), tk0.offset, data)
                     /\ SetTask(t, IF LastBlock(resp.len) THEN DownloadReturned(tk, "nil")
                                   ELSE tk)
    /\ UNCHANGED <<crawlFrame, edits, crashed, dirExists>>

\* faulty variant: the delay is taken only after a download that returned nil
waitAfterSuccess(tk) == IF tk.dlErr = "nil" THEN [tk EXCEPT !.waits = @ + 1] ELSE tk

\* one pacing delay has been slept through
waitRandomDuration(tk) == [tk EXCEPT !.waits = @ + 1]

\* waitRandomDuration, and the page loop up to the next download
Wait(t) ==
    /\ ~crashed
    /\ tasks[t].pc = "wait"
    /\ LET tk == AfterDownload(waitRandomDuration(tasks[t]))
       IN  IF ContinuePanics(tk, tk.i)
           THEN crashed' = TRUE /\ UNCHANGED tasks
           ELSE SetTask(t, Continue(tk, tk.i)) /\ UNCHANGED crashed
    /\ UNCHANGED <<crawlFrame, edits, dirExists, files>>

\* the goroutine's MessagesEditMessage after downloadChannelVideos returned
EditMessage(t) ==
    /\ ~crashed
    /\ tasks[t].pc = "edit"
    /\ \E ok \in BOOLEAN :
        edits' = [edits EXCEPT ![t] = @ \o EditRequests(tasks[t], ok)]
    /\ SetTask(t, Ended(tasks[t]))
    /\ UNCHANGED <<crawlFrame, crashed, dirExists, files>>

----------------------------------------------------------------------------
(* Specifications *)

FnIdle == fnName = "none" /\ fnArg = <<>> /\ fnRes = <<>>

\* the platform at the model's bounds
FullWorld ==
    [entries |-> SelfEntries, pre |-> MaxPre, resolve |-> ResolveResults,
     kinds |-> EntryKinds, names |-> FilenameAttrs, minId |-> 0, chanTop |-> MaxChanId,
     pageLimit |-> PageLimit, blocks |-> MaxBlocks, maxFails |-> MaxFails,
     history |-> TRUE]

\* the platform of the crawl: every answer to the resolution, every kind of
\* entry in the pages, identifiers from 0 on, documents without a filename
\* attribute and of less than one block
CrawlWorld == [FullWorld EXCEPT !.names = {<<>>}, !.blocks = 0]

\* the platform of the downloads: a channel of two messages, all videos,
\* with or without a filename attribute, of up to MaxBlocks full blocks
DownloadWorld ==
    [FullWorld EXCEPT !.resolve = {"Channel"}, !.kinds = {"video"}, !.minId = 1,
                      !.chanTop = 2, !.pageLimit = 2]

\* the platform of two concurrent crawls: a channel of two messages, both
\* videos without a filename attribute, of up to one full block, fetched
\* one message a page
RaceWorld ==
    [FullWorld EXCEPT !.resolve = {"Channel"}, !.kinds = {"video"}, !.names = {<<>>},
                      !.minId = 1, !.chanTop = 2, !.pageLimit = 1, !.blocks = 1]

\* a platform whose channels hold one message, a video or a service
\* message, and whose files hold less than one block, where a handle resolves
\* to a channel or to nothing, and an operator who sends commands only, to a
\* conversation that is empty when the process starts; the records of what
\* the downloads did are not kept
SmallWorld ==
    [entries |-> {e \in SelfEntries : e.text = cmdText}, pre |-> 0,
     resolve |-> {"Channel", "none"}, kinds |-> {"video", "service"},
     names |-> {<<>>}, minId |-> 1, chanTop |-> 1, pageLimit |-> 1, blocks |-> 0,
     maxFails |-> 1, history |-> FALSE]

\* conversations that can exist when the process starts
InitialConvs(w) == {WithIds(es) : es \in SeqsUpTo(w.entries, w.pre)}

\* the state after startup: the mark is the zero value of `var lastMsgID int`
InitSys(order, w) ==
    /\ world = w
    /\ conv \in {c \in InitialConvs(w) : CommandCount(c) <= MaxCmds}
    /\ startupTop = Len(conv)
    /\ anyOrder = order
    /\ lastMsgID = 0
    /\ pollPc = "sleep"
    /\ newMessages = <<>>
    /\ cycle = NoCycle
    /\ dispatched = <<>>
    /\ tasks = <<>>
    /\ edits = <<>>
    /\ crashed = FALSE
    /\ dirExists \in BOOLEAN
    /\ files = NoFiles
    /\ FnIdle

Init == InitSys(FALSE, SmallWorld)

\* the operator and the poller
PollerNext ==
    \/ SendMessage
    \/ PollFetch
    \/ HandleNext

\* the crawl goroutines
CrawlNext ==
    \/ \E t \in 1..Len(tasks) : EnsureDir(t)
    \/ \E t \in 1..Len(tasks) : Resolve(t)
    \/ \E t \in 1..Len(tasks) : FetchPage(t)
    \/ \E t \in 1..Len(tasks) : CreateFile(t)
    \/ \E t \in 1..Len(tasks) : GetChunk(t)
    \/ \E t \in 1..Len(tasks) : Wait(t)
    \/ \E t \in 1..Len(tasks) : EditMessage(t)

Next == PollerNext \/ CrawlNext

\* the whole process on the small platform
Spec == Init /\ [][Next]_vars

\* the poller and the operator on the full platform, the crawl goroutines not scheduled
SpecPoller == InitSys(FALSE, FullWorld) /\ [][PollerNext]_vars

\* the same, on a platform that returns history windows in any order
SpecAnyOrder == InitSys(TRUE, FullWorld) /\ [][PollerNext]_vars

\* the state of the poller once it has dispatched the one command of a
\* conversation that was empty at startup
CrawlStart ==
    LET m == [id |-> 1, kind |-> "Message", text |-> cmdText]
    IN  /\ conv = <<m>>
        /\ startupTop = 0
        /\ lastMsgID = 1
        /\ pollPc = "sleep"
        /\ newMessages = <<>>
        /\ cycle = [res |-> "ok", startMark |-> 0, fetched |-> <<m>>, handled |-> <<1>>,
                    fails |-> 0]
        /\ dispatched = <<1>>
        /\ tasks = <<NewTask(m, handleMessage(cmdText).channelUsername)>>
        /\ edits = <<<<>>>>
        /\ crashed = FALSE

InitCrawlOn(w) ==
    /\ world = w
    /\ anyOrder = FALSE
    /\ CrawlStart
    /\ dirExists \in BOOLEAN
    /\ files = NoFiles
    /\ FnIdle

InitCrawl == InitCrawlOn(CrawlWorld)

\* one crawl goroutine walking a channel, the poller asleep
SpecCrawl == InitCrawl /\ [][CrawlNext]_vars

InitDownload == InitCrawlOn(DownloadWorld)

\* the same under the scheduler: a goroutine that can take a step eventually
\* takes one (every call of the crawl returns)
SpecCrawlFair == SpecCrawl /\ WF_vars(CrawlNext)

\* one crawl goroutine downloading the videos of a small channel, the poller asleep
SpecDownload == InitDownload /\ [][CrawlNext]_vars

------------------------------------------------------------\* the state of the poller once it has dispatched, in one cycle, the two
\* commands of a conversation that was empty at startup
RaceStart ==
    LET m1 == [id |-> 1, kind |-> "Message", text |-> cmdText]
        m2 == [id |-> 2, kind |-> "Message", text |-> cmdText]
    IN  /\ conv = <<m1, m2>>
        /\ startupTop = 0
        /\ lastMsgID = 2
        /\ pollPc = "sleep"
        /\ newMessages = <<>>
        /\ cycle = [res |-> "ok", startMark |-> 0, fetched |-> <<m2, m1>>,
                    handled |-> <<1, 2>>, fails |-> 0]
        /\ dispatched = <<1, 2>>
        /\ tasks = <<NewTask(m1, handleMessage(cmdText).channelUsername),
                     NewTask(m2, handleMessage(cmdText).channelUsername)>>
        /\ edits = <<<<>>, <<>>>>
        /\ crashed = FALSE

InitRace ==
    /\ world = RaceWorld
    /\ anyOrder = FALSE
    /\ RaceStart
    /\ dirExists \in BOOLEAN
    /\ files = NoFiles
    /\ FnIdle

\* two crawl goroutines running at the same time, the poller asleep
SpecRace == InitRace /\ [][CrawlNext]_vars

----------------
(* The string functions on their own: handleMessage's command test and      *)
(* parseChannelUsername applied to texts built from a few pieces            *)

TextPieces == {strDownloadC, strDownloa, strSpace, strBar, strHttps}
Texts == {Concat(ps) : ps \in SeqsUpTo(TextPieces, MaxTextPieces)}

LinkPieces == {strHttps, strHttp, strTme, strSpace, strFoo}
Links == {Concat(ps) : ps \in SeqsUpTo(LinkPieces, MaxLinkPieces)}

InitPure ==
    /\ world = SmallWorld
    /\ conv = <<>>
    /\ startupTop = 0
    /\ anyOrder = FALSE
    /\ lastMsgID = 0
    /\ pollPc = "sleep"
    /\ newMessages = <<>>
    /\ cycle = NoCycle
    /\ dispatched = <<>>
    /\ tasks = <<>>
    /\ edits = <<>>
    /\ crashed = FALSE
    /\ dirExists = FALSE
    /\ files = NoFiles
    /\ fnRes = <<>>
    /\ \/ fnName = "handleMessage" /\ fnArg \in Texts
       \/ fnName = "parseChannelUsername" /\ fnArg \in Links

CallHandleMessage ==
    /\ fnName = "handleMessage"
    /\ fnRes = <<>>
    /\ fnRes' = <<handleMessage(fnArg)>>
    /\ UNCHANGED <<sysVars, fnName, fnArg>>

CallParseChannelUsername ==
    /\ fnName = "parseChannelUsername"
    /\ fnRes = <<>>
    /\ fnRes' = <<parseChannelUsername(fnArg)>>
    /\ UNCHANGED <<sysVars, fnName, fnArg>>

PureNext == CallHandleMessage \/ CallParseChannelUsername

SpecPure == InitPure /\ [][PureNext]_vars

----------------------------------------------------------------------------
(* Claims about the poller *)

RECURSIVE Ascending(_)
\* the elements of a finite set of integers, in ascending order
Ascending(S) ==
    IF S = {} THEN <<>>
    ELSE LET lo == CHOOSE x \in S : \A y \in S : x <= y
         IN  <<lo>> \o Ascending(S \ {lo})

Ids(ms) == [k \in 1..Len(ms) |-> ms[k].id]

\* identifiers of the regular messages of a fetched list above a mark
NewIds(fetched, mark) ==
    {fetched[k].id : k \in {j \in 1..Len(fetched) :
                                fetched[j].kind = "Message" /\ fetched[j].id > mark}}

NoDuplicates(ids) == \A a, b \in 1..Len(ids) : a # b => ids[a] # ids[b]

\* C1: in a poll cycle whose fetch returned a message list, handleMessage is
\* invoked on exactly the fetched regular messages whose identifier is above
\* the mark held at the start of the cycle, in ascending identifier order
\* (what is handled so far followed by what is still pending is that list at
\* every point of the cycle), and over all cycles no identifier is
\* dispatched twice.
C1_DispatchNewOnceAscending ==
    /\ cycle.res = "ok" =>
        cycle.handled \o Ids(newMessages) = Ascending(NewIds(cycle.fetched, cycle.startMark))
    /\ cycle.res = "ok" /\ pollPc = "sleep" => newMessages = <<>>
    /\ NoDuplicates(dispatched)

\* a cycle has ended whose window held two messages, one at or below the
\* mark, which was not dispatched again, and one above it, which was
C1_Witness ==
    /\ pollPc = "sleep"
    /\ cycle.res = "ok"
    /\ Len(cycle.fetched) = 2
    /\ cycle.startMark >= 1
    /\ Len(cycle.handled) = 1
    /\ Len(dispatched) >= 2

\* C2: no message that existed in the self-conversation before the process
\* started is ever dispatched.
C2_PreexistingNeverDispatched ==
    \A k \in 1..Len(dispatched) : dispatched[k] > startupTop

\* C3: the mark never decreases, whatever a cycle's fetch returns and in
\* whatever order, and it is at least the identifier of every message the
\* dispatch loop has iterated, command or not.
C3_MarkMonotone ==
    /\ [][lastMsgID' >= lastMsgID]_vars
    /\ [](\A k \in 1..Len(cycle.handled) : lastMsgID >= cycle.handled[k])

\* a cycle has ended in which the platform returned the window oldest first,
\* so that the loop iterated identifier 2 before identifier 1, the second of
\* them no command
C3_Witness ==
    /\ anyOrder
    /\ pollPc = "sleep"
    /\ cycle.res = "ok"
    /\ cycle.handled = <<2, 1>>
    /\ conv[1].text # cmdText
    /\ lastMsgID = 2

------------------------------------------------------------\* C14: a poll cycle whose fetch of the self-conversation fails is skipped:
\* it dispatches nothing, starts no crawl and leaves the mark where it was,
\* and the poll loop is then at its sleep with the next fetch possible,
\* after any number of consecutive failures
C14_FailedFetchSkipsCycle ==
    /\ [](cycle.res = "err" =>
            /\ cycle.fails >= 1
            /\ pollPc = "sleep"
            /\ newMessages = <<>>
            /\ cycle.handled = <<>>
            /\ lastMsgID = cycle.startMark
            /\ ENABLED PollFetch)
    /\ [][cycle'.res = "err" /\ cycle' # cycle =>
            /\ dispatched' = dispatched
            /\ lastMsgID' = lastMsgID
            /\ tasks' = tasks
            /\ newMessages' = newMessages
            /\ pollPc' = pollPc]_vars

\* the fetch has failed MaxFails times in a row, after a cycle that
\* dispatched, while a newer message waits in the conversation
C14_Witness ==
    /\ cycle.res = "err"
    /\ cycle.fails = MaxFails
    /\ dispatched # <<>>
    /\ Len(conv) > lastMsgID

----------------
(* Claims about the command test and the normalization *)

RECURSIVE Fields(_)
\* the whitespace-delimited tokens of a string
Fields(s) ==
    LET t == TrimLeft(s)
    IN  IF t = <<>> THEN <<>>
        ELSE LET n == IF \E k \in 1..Len(t) : IsSpace(t[k])
                      THEN (CHOOSE k \in 1..Len(t) :
                                IsSpace(t[k]) /\ \A h \in 1..(k - 1) : ~IsSpace(t[h])) - 1
                      ELSE Len(t)
             IN  <<SubSeq(t, 1, n)>> \o Fields(SubSeq(t, n + 1, Len(t)))

CommandPrefix == strDownload \o strSpace

\* the tokens that follow the prefix "download ", when the text has it
CommandTokens(text) ==
    IF HasPrefix(ToLower(text), CommandPrefix)
    THEN Fields(SubSeq(text, Len(CommandPrefix) + 1, Len(text)))
    ELSE <<>>

\* C4: handleMessage starts a crawl if and only if the text is, case
\* insensitively, "download " followed by exactly one whitespace-delimited
\* token, and the crawl is started for the normalized form of that token.
C4_SpawnIffSingleToken ==
    fnName = "handleMessage" /\ fnRes # <<>> =>
        LET toks == CommandTokens(fnArg)
        IN  /\ fnRes[1].spawn <=> Len(toks) = 1
            /\ fnRes[1].spawn /\ Len(toks) = 1 =>
                    fnRes[1].channelUsername = parseChannelUsername(toks[1])

KnownPrefixes == {strHttps, strHttp, strTme}

\* the first known prefix that matches is removed, once
RemoveFirstPrefix(link) ==
    IF HasPrefix(link, strHttps) THEN TrimPrefix(link, strHttps)
    ELSE IF HasPrefix(link, strHttp) THEN TrimPrefix(link, strHttp)
    ELSE TrimPrefix(link, strTme)

IsBareHandle(h) == h # <<>> /\ \A k \in 1..Len(h) : ~IsSpace(h[k])

HasKnownPrefix(h) == \E p \in KnownPrefixes : HasPrefix(h, p)

\* C6 as stated: at most one known prefix is removed, the first that
\* matches, and the result is trimmed; and for every bare handle h, one that
\* begins with a known prefix included, h with or without a known prefix in
\* front normalizes to h.
C6_RemovesOnePrefix ==
    fnName = "parseChannelUsername" /\ fnRes # <<>> =>
        /\ fnRes[1] = TrimSpace(RemoveFirstPrefix(fnArg))
        /\ \A p \in KnownPrefixes \cup {<<>>} :
                HasPrefix(fnArg, p) /\ IsBareHandle(TrimPrefix(fnArg, p))
                    => fnRes[1] = TrimPrefix(fnArg, p)

\* C6 as amended: the input is trimmed first, then "https://t.me/",
\* "http://t.me/" and "t.me/" are removed in this order, each when what is
\* left starts with it (so up to three prefixes go, and whitespace a removal
\* uncovers stays); and for every bare handle h that begins with no known
\* prefix, h with or without a known prefix in front normalizes to h.
C6_RemovesEachPrefixInOrder ==
    fnName = "parseChannelUsername" /\ fnRes # <<>> =>
        /\ \E a \in {<<>>, strHttps}, b \in {<<>>, strHttp}, c \in {<<>>, strTme} :
            /\ TrimSpace(fnArg) = a \o b \o c \o fnRes[1]
            /\ a = <<>> => ~HasPrefix(TrimSpace(fnArg), strHttps)
            /\ b = <<>> => ~HasPrefix(b \o c \o fnRes[1], strHttp)
            /\ c = <<>> => ~HasPrefix(fnRes[1], strTme)
        /\ \A p \in KnownPrefixes \cup {<<>>} :
                /\ HasPrefix(fnArg, p)
                /\ IsBareHandle(TrimPrefix(fnArg, p))
                /\ ~HasKnownPrefix(TrimPrefix(fnArg, p))
                => fnRes[1] = TrimPrefix(fnArg, p)

\* "http://t.me/foo" has been normalized to "foo"
C6_Witness ==
    /\ fnName = "parseChannelUsername"
    /\ fnArg = strHttp \o strFoo
    /\ fnRes = <<strFoo>>

----------------------------------------------------------------------------
(* Claims about the crawl goroutines *)

PollerSteps == PollFetch \/ HandleNext

\* C5: the poller never waits for a crawl: the step that starts a crawl
\* leaves the new goroutine at its first instruction and every other
\* goroutine where it was, the poller can take its next step whatever the
\* goroutines are doing, and every command has a goroutine of its own.
C5_PollerNeverWaits ==
    /\ [](~crashed => ENABLED PollerSteps)
    /\ [](/\ Len(tasks) = Cardinality({k \in 1..Len(dispatched) :
                                            IsCommandEntry(conv[dispatched[k]])})
          /\ NoDuplicates([t \in 1..Len(tasks) |-> tasks[t].msgID]))
    /\ [][Len(tasks') > Len(tasks) =>
            /\ Len(tasks') = Len(tasks) + 1
            /\ tasks'[Len(tasks')].pc = "ensureDir"
            /\ \A t \in 1..Len(tasks) : tasks'[t] = tasks[t]]_vars

\* the mark has passed a second command and its goroutine exists while the
\* first command's goroutine is in a pacing delay
C5_Witness ==
    /\ Len(tasks) = 2
    /\ tasks[1].pc = "wait"
    /\ tasks[2].pc = "ensureDir"
    /\ lastMsgID = tasks[2].msgID
    /\ pollPc = "sleep"

\* C7: a goroutine that has ended has issued exactly one edit, of its
\* command message, to the text "finished"; one that has not ended has
\* issued none; and once it has ended nothing more happens for it: no second
\* edit, no new crawl.
C7_OneEditAfterCrawl ==
    /\ [](\A t \in 1..Len(tasks) :
            IF tasks[t].pc = "done"
            THEN /\ Len(edits[t]) = 1
                 /\ edits[t][1].id = tasks[t].msgID
                 /\ edits[t][1].text = strFinished
            ELSE edits[t] = <<>>)
    /\ [][\A t \in 1..Len(tasks) :
            /\ edits'[t] # edits[t] => tasks[t].pc = "edit"
            /\ tasks[t].pc = "done" => tasks'[t] = tasks[t]]_vars

\* a goroutine has ended whose crawl returned an error and whose edit failed
C7_Witness ==
    \E t \in 1..Len(tasks) :
        /\ tasks[t].pc = "done"
        /\ edits[t] # <<>>
        /\ edits[t][1].afterErr
        /\ ~edits[t][1].ok

\* C8: nothing a crawl goroutine receives from the platform stops the process.
C8_ProcessNeverStops == ~crashed

\* C9 as stated: a crawl returns an error only after a failed directory
\* creation or a failed resolution.
C9_ErrorOnlyFromResolveOrMkdir ==
    \A t \in 1..Len(tasks) :
        tasks[t].pc = "edit" /\ tasks[t].err # "nil"
            => tasks[t].seen \cap {"mkdir", "resolve"} # {}

\* C9 as amended: a crawl returns an error exactly when the directory
\* creation, the resolution or the fetch of a history page (the first or a
\* later one) has failed; failed downloads alone never make it return an error.
C9_ErrorOnlyFromResolveMkdirOrHistory ==
    \A t \in 1..Len(tasks) :
        tasks[t].pc = "edit"
            => (tasks[t].err # "nil"
                    <=> tasks[t].seen \cap {"mkdir", "resolve", "history"} # {})

\* a crawl has returned without error after a download of it failed
C9_Witness ==
    \E t \in 1..Len(tasks) :
        /\ tasks[t].pc = "edit"
        /\ tasks[t].err = "nil"
        /\ "download" \in tasks[t].seen
        /\ tasks[t].attempted # <<>>

InDownload(tk) == tk.pc \in {"create", "chunk"}

\* identifiers of the video items of a page at the indexes from i up, in
\* the order the page loop reaches them
VideosFrom(page, i) ==
    LET idx == Reverse(Ascending({j \in i..Len(page) : IsVideoItem(page[j])}))
    IN  [k \in 1..Len(idx) |-> page[idx[k]].id]

LastN(s, n) == SubSeq(s, Len(s) - n + 1, Len(s))

\* C10: when downloadOneVideo returns, with an error or without, the crawl
\* is in the same state: at the pacing delay of that item, with the same
\* page, index, cursor and no crawl error; and at every point of a page the
\* downloads attempted so far are all the video items the loop has passed.
C10_TransferErrorLocal ==
    /\ [][\A t \in 1..Len(tasks) :
            InDownload(tasks[t]) /\ ~InDownload(tasks'[t]) =>
                /\ tasks'[t].pc = "wait"
                /\ tasks'[t].err = "nil"
                /\ tasks'[t].page = tasks[t].page
                /\ tasks'[t].i = tasks[t].i
                /\ tasks'[t].offsetID = tasks[t].offsetID
                /\ tasks'[t].attempted = tasks[t].attempted
                /\ ~crashed']_vars
    /\ [](\A t \in 1..Len(tasks) :
            tasks[t].pc \in {"create", "chunk", "wait"} =>
                LET done == VideosFrom(tasks[t].page, tasks[t].i)
                IN  /\ Len(done) <= Len(tasks[t].attempted)
                    /\ LastN(tasks[t].attempted, Len(done)) = done)

\* after a failed download on the first page, the crawl has gone through the
\* rest of that page and a download of the next page is starting
C10_Witness ==
    \E t \in 1..Len(tasks) :
        /\ tasks[t].pc = "create"
        /\ "download" \in tasks[t].seen
        /\ Len(tasks[t].attempted) = 3
        /\ tasks[t].offsetID > 0

----------------------------------------------------------------------------
(* Claims about one download *)

\* a task is inside a call of downloadOneVideo, or in the delay that follows it
Downloading(tk) == tk.pc \in {"chunk", "wait"}

\* the chunks a download received, in request order: the non-empty answers
\* of type UploadFile, as the bytes of the document at the requested offset
Received(tk) ==
    LET got == {k \in 1..Len(tk.resps) : tk.resps[k].kind = "UploadFile" /\ tk.resps[k].len > 0}
        ks == Ascending(got)
    IN  [n \in 1..Len(ks) |-> Payload(CurrentDoc(tk), tk.reqs[ks[n]].offset, tk.resps[ks[n]].len)]

\* the download of a task has returned nil
Succeeded(tk) == tk.pc = "wait" /\ tk.dlErr = "nil"

\* C11: in one download the request offsets start at 0 and each next offset
\* is the previous one plus the number of bytes the previous chunk returned,
\* hence strictly larger; when the download returns nil, the destination
\* file holds exactly the chunks received, in request order, which are the
\* bytes of the document from 0 up to the sum of the chunk sizes, without
\* gap, overlap or duplicate
C11_OffsetsAndConcatenation ==
    \A t \in 1..Len(tasks) :
        LET tk == tasks[t]
        IN  Downloading(tk) =>
              /\ Len(tk.reqs) >= 1 => tk.reqs[1].offset = 0
              /\ \A k \in 2..Len(tk.reqs) :
                    /\ tk.reqs[k].offset = tk.reqs[k - 1].offset + tk.resps[k - 1].len
                    /\ tk.reqs[k].offset > tk.reqs[k - 1].offset
              /\ Succeeded(tk) =>
                    /\ outputPath(tk) \in DOMAIN files
                    /\ files[outputPath(tk)] = Received(tk)
                    /\ Size(files[outputPath(tk)]) = Size(Received(tk))
                    /\ Merge(files[outputPath(tk)]) =
                          IF Size(Received(tk)) = 0 THEN <<>>
                          ELSE <<Payload(CurrentDoc(tk), 0, Size(Received(tk)))>>

\* a download that received chunks of 65536, 65536 and 32000 bytes has
\* returned nil, over a file an earlier download of the crawl had written
C11_Witness ==
    \E t \in 1..Len(tasks) :
        /\ Succeeded(tasks[t])
        /\ [k \in 1..Len(tasks[t].resps) |-> tasks[t].resps[k].len] = <<65536, 65536, 32000>>
        /\ Size(files[outputPath(tasks[t])]) = 163072
        /\ \E s \in 1..Len(tasks[t].saved) - 1 :
                /\ tasks[t].saved[s].name = outputPath(tasks[t])
                /\ tasks[t].saved[s].content # <<>>

------------------------------------------------------------\* the chunk of an answer of UploadGetFile is a full one
FullChunk(resp) == resp.kind = "UploadFile" /\ resp.len = blockSize

\* C16: in one download every request asks for blockSize = 65536 bytes and
\* is answered before the next; a further request is issued only after a
\* full chunk, so every answer but the last is a full chunk and nothing is
\* requested after an empty or a short one; a transfer that returned nil
\* ended on an empty chunk, which wrote nothing, or on a short one, which
\* was written; and after a full chunk that was written the transfer is at
\* its next request
C16_NextRequestIffFullChunk ==
    \A t \in 1..Len(tasks) :
        LET tk == tasks[t]
            n == Len(tk.resps)
        IN  Downloading(tk) =>
              /\ Len(tk.reqs) = n
              /\ \A k \in 1..n : tk.reqs[k].limit = 65536 /\ tk.resps[k].len <= tk.reqs[k].limit
              /\ \A k \in 1..(n - 1) : FullChunk(tk.resps[k])
              /\ tk.pc = "chunk" /\ n >= 1 => FullChunk(tk.resps[n])
              /\ tk.pc = "wait" /\ n >= 1 /\ FullChunk(tk.resps[n]) => tk.dlErr = "write"
              /\ Succeeded(tk) =>
                    /\ n >= 1
                    /\ tk.resps[n].kind = "UploadFile"
                    /\ tk.resps[n].len < blockSize
                    /\ Len(tk.chunks) = IF tk.resps[n].len = 0 THEN n - 1 ELSE n
                    /\ Size(files[outputPath(tk)]) = (n - 1) * blockSize + tk.resps[n].len

\* a transfer has ended on an empty chunk after a full one, and the file
\* holds the full chunk only
C16_Witness ==
    \E t \in 1..Len(tasks) :
        /\ Succeeded(tasks[t])
        /\ [k \in 1..Len(tasks[t].resps) |-> tasks[t].resps[k].len] = <<65536, 0>>
        /\ Size(files[outputPath(tasks[t])]) = 65536

----------------
(* Claims about the walk through the channel history *)

\* a crawl is still inside downloadChannelVideos
Running(tk) == tk.pc \in {"ensureDir", "resolve", "fetch", "create", "chunk", "wait"}

\* C12: on a platform whose pages hold only messages older than the cursor,
\* every crawl eventually stops running (it returns, or the process has
\* ended); a fetch that answers an empty page or a response that is no
\* channel message list ends the crawl at once and without error, and so
\* does a page whose oldest identifier is 0; a crawl whose first fetch
\* answers an empty page returns nil with no download and no pacing delay
C12_CrawlTerminates ==
    /\ <>(crashed \/ \A t \in 1..Len(tasks) : ~Running(tasks[t]))
    /\ [](\A t \in 1..Len(tasks) :
            LET tk == tasks[t]
            IN  /\ tk.lastPage \in {"empty", "other"} =>
                      ~Running(tk) /\ tk.err = "nil"
                /\ tk.lastPage = "page" /\ tk.pc = "edit" =>
                      tk.err = "nil" /\ tk.offsetID = 0
                /\ tk.lastPage = "empty" /\ tk.pc = "edit" /\ tk.offsetID = 0 =>
                      /\ tk.err = "nil"
                      /\ tk.attempted = <<>>
                      /\ tk.saved = <<>>
                      /\ tk.waits = 0)

\* a crawl whose first fetch answered an empty page has returned
C12_Witness ==
    \E t \in 1..Len(tasks) :
        /\ tasks[t].pc = "edit"
        /\ tasks[t].lastPage = "empty"
        /\ tasks[t].offsetID = 0
        /\ tasks[t].err = "nil"

\* C13: in a crawl the downloads are sequential and paced: while a download
\* is running, and until the delay that follows it is over, the delays
\* completed are exactly the earlier downloads of the crawl (none before
\* the first one, none during a download); at every page fetch and at the
\* return there are exactly as many delays as attempted downloads, failed
\* or not (none for other messages or pages without video); a delay is
\* taken only once a download has returned, and a download or a fetch
\* starts only from the previous fetch or once the delay is over
C13_OneDelayPerDownload ==
    /\ [](\A t \in 1..Len(tasks) :
            LET tk == tasks[t]
            IN  /\ tk.pc \in {"ensureDir", "resolve"} => tk.waits = 0 /\ tk.attempted = <<>>
                /\ tk.pc \in {"create", "chunk", "wait"} => tk.waits = Len(tk.attempted) - 1
                /\ tk.pc \in {"fetch", "edit"} => tk.waits = Len(tk.attempted))
    /\ [][\A t \in 1..Len(tasks) :
            /\ tasks'[t].waits > tasks[t].waits =>
                  tasks[t].pc = "wait" /\ tasks'[t].waits = tasks[t].waits + 1
            /\ tasks[t].pc = "wait" /\ tasks'[t].pc # "wait" =>
                  tasks'[t].waits = tasks[t].waits + 1
            /\ Len(tasks'[t].attempted) > Len(tasks[t].attempted) =>
                  /\ tasks[t].pc \in {"fetch", "wait"}
                  /\ Len(tasks'[t].attempted) = Len(tasks[t].attempted) + 1]_vars

\* a crawl has returned after two downloads, one failed and one not, and
\* two delays
C13_Witness ==
    \E t \in 1..Len(tasks) :
        /\ tasks[t].pc = "edit"
        /\ Len(tasks[t].attempted) = 2
        /\ tasks[t].waits = 2
        /\ "download" \in tasks[t].seen
        /\ Len(tasks[t].saved) = 1
        /\ tasks[t].offsetID = 0

------------------------------------------------------------\* C17 as stated: over a crawl the identifiers of the messages whose
\* download is attempted are strictly decreasing (pages in decreasing-cursor
\* order, and within a page from the newest video to the oldest)
C17_AttemptsNewestFirst ==
    \A t \in 1..Len(tasks) : IsDescending(tasks[t].attempted)

\* a page without video that the platform can return for a cursor and that
\* ends with identifier id
NoVideoPageEndingAt(cursor, id) ==
    \E p \in Pages(cursor) :
        p # <<>> /\ NextVideoBelow(p, Len(p) + 1) = 0 /\ p[Len(p)].id = id

\* C18: the cursor of a crawl is 0 until its first page has been processed;
\* it changes only in the step that leaves a page, none of whose videos is
\* left to download, and becomes the identifier of the last entry of that
\* page; each new value is below the previous one once the cursor has left
\* 0; and no fetch is issued with a cursor that a page has set to 0
C18_CursorOldestOfPage ==
    /\ [](\A t \in 1..Len(tasks) :
            LET tk == tasks[t]
            IN  /\ tk.pc \in {"ensureDir", "resolve"} => tk.offsetID = 0
                /\ tk.lastPage = "none" => tk.offsetID = 0
                /\ tk.pc = "fetch" /\ tk.lastPage = "page" => tk.offsetID > 0)
    /\ [][\A t \in 1..Len(tasks) :
            tasks'[t].offsetID # tasks[t].offsetID /\ tasks'[t].pc # "done" =>
                /\ tasks'[t].pc = IF tasks'[t].offsetID = 0 THEN "edit" ELSE "fetch"
                /\ tasks[t].pc \in {"fetch", "wait"}
                /\ tasks[t].pc = "wait" =>
                      /\ NextVideoBelow(tasks[t].page, tasks[t].i) = 0
                      /\ tasks'[t].offsetID = tasks[t].page[Len(tasks[t].page)].id
                /\ tasks[t].pc = "fetch" =>
                      NoVideoPageEndingAt(tasks[t].offsetID, tasks'[t].offsetID)
                /\ tasks[t].offsetID # 0 => tasks'[t].offsetID < tasks[t].offsetID]_vars
    /\ [][\A t \in 1..Len(tasks) :
            tasks[t].pc \in {"fetch", "wait"} /\ tasks'[t].pc = "edit"
                /\ tasks'[t].lastPage = "page" =>
                    /\ tasks'[t].offsetID = 0
                    /\ tasks[t].pc = "wait" =>
                          tasks[t].page[Len(tasks[t].page)].id = 0]_vars

\* a crawl is at the fetch of a later page, its cursor at 1 after three
\* downloads on more than one page
C18_Witness ==
    \E t \in 1..Len(tasks) :
        /\ tasks[t].pc = "fetch"
        /\ tasks[t].offsetID = 1
        /\ Len(tasks[t].attempted) = 3

----------------
(* Claims about the files of a crawl *)

\* C15 as stated: when a crawl returns, every attachment whose download
\* returned nil has a file of its name that holds the chunks of that download
C15_OneFilePerAttachment ==
    \A t \in 1..Len(tasks) :
        tasks[t].pc = "edit" =>
            \A k \in 1..Len(tasks[t].saved) :
                /\ tasks[t].saved[k].name \in DOMAIN files
                /\ files[tasks[t].saved[k].name] = tasks[t].saved[k].content

\* no later download of the crawl went to the path of saved download s
LastOfItsName(tk, s) == \A k \in (s.n + 1)..Len(tk.paths) : tk.paths[k] # s.name

\* C15, amended: the directory holds one file per filename: a download goes
\* to the file named by the attachment's filename tag, or "video" without
\* one; until the crawl has ended every file is named after one of its
\* attempted downloads; and an attachment
\* whose download returned nil has its bytes in the file of its name as
\* long as no later download of the crawl went to the same name
C15_OneFilePerName ==
    \A t \in 1..Len(tasks) :
        LET tk == tasks[t]
        IN  /\ tk.pc # "done" =>
                  DOMAIN files \subseteq {tk.paths[k] : k \in 1..Len(tk.paths)}
            /\ tk.pc \in {"create", "chunk", "wait"} =>
                  tk.paths[Len(tk.paths)] =
                      IF tk.page[tk.i].attrs = <<>> THEN "video" ELSE strClip
            /\ \A k \in 1..Len(tk.saved) :
                  LastOfItsName(tk, tk.saved[k]) =>
                      /\ tk.saved[k].name \in DOMAIN files
                      /\ files[tk.saved[k].name] = tk.saved[k].content

\* a crawl has returned after a download to "video" and a later one to a
\* tagged name, and each file holds the bytes of its attachment
C15_Witness ==
    \E t \in 1..Len(tasks) :
        /\ tasks[t].pc = "edit"
        /\ Len(tasks[t].saved) = 2
        /\ tasks[t].saved[1].content # <<>>
        /\ tasks[t].saved[2].content # <<>>
        /\ tasks[t].saved[1].name = "video"
        /\ tasks[t].saved[2].name = strClip
        /\ files[strClip] = tasks[t].saved[2].content
        /\ files["video"] = tasks[t].saved[1].content

\* task u has the file at path open and is not done writing it
Writing(u, path) == tasks[u].pc = "chunk" /\ outputPath(tasks[u]) = path

\* C19: nothing serializes or namespaces the downloads of two crawls: the
\* path depends on the filename attribute alone, a task at os.Create can
\* always go on, whatever other task has the same path open; its os.Create
\* empties the file, the bytes another task has written included; and the
\* other task's next write goes where its own offset is, not to the end of
\* the file
C19_WritersNotSerialized ==
    /\ [](\A t \in 1..Len(tasks) :
            /\ tasks[t].pc \in {"create", "chunk"} /\ tasks[t].page[tasks[t].i].attrs = <<>> =>
                  outputPath(tasks[t]) = "video"
            /\ tasks[t].pc = "create" /\ ~crashed => ENABLED CreateFile(t))
    /\ [][\A t \in 1..Len(tasks) :
            /\ tasks[t].pc = "create" /\ tasks'[t].pc = "chunk" =>
                  files'[outputPath(tasks[t])] = <<>>
            /\ tasks[t].pc = "chunk" /\ Len(tasks'[t].chunks) > Len(tasks[t].chunks) =>
                  LET path == outputPath(tasks[t])
                      data == tasks'[t].chunks[Len(tasks'[t].chunks)]
                  IN  /\ Drop(Take(files'[path], tasks[t].offset + data.len), tasks[t].offset)
                            = <<data>>
                      /\ Take(files'[path], tasks[t].offset) =
                            Take(files[path], tasks[t].offset) \o
                              (IF Size(files[path]) < tasks[t].offset
                               THEN <<[src |-> Hole, from |-> 0,
                                       len |-> tasks[t].offset - Size(files[path])]>>
                               ELSE <<>>)]_vars

\* the download of one task has returned nil while the file does not hold
\* the chunks it received: after its first chunk another task, downloading
\* another document to the same path, truncated the file and is still
\* writing it; the second chunk then went to the first task's own offset
C19_Witness ==
    \E t, u \in 1..Len(tasks) :
        /\ t # u
        /\ Succeeded(tasks[t])
        /\ Len(Received(tasks[t])) = 2
        /\ ~SameBytes(files[outputPath(tasks[t])], Received(tasks[t]))
        /\ Drop(files[outputPath(tasks[t])], blockSize) = <<Received(tasks[t])[2]>>
        /\ Writing(u, outputPath(tasks[t]))
        /\ CurrentDoc(tasks[u]) # CurrentDoc(tasks[t])

----------------------------------------------------------------------------
(* Claims about the order of the steps of a crawl *)

\* the reference of a crawl has resolved to a channel
Resolved(tk) == tk.pc \in {"fetch", "create", "chunk", "wait"} \/ tk.lastPage # "none"

\* the resolution of a crawl has failed
ResolutionFailed(tk) == "resolve" \in tk.seen

\* C20 as stated: the directory is checked or created only once the
\* reference has resolved, so a crawl whose resolution failed has changed
\* nothing on disk and a failure to create the directory is reported only
\* for a reference that resolved
C20_DirectoryAfterResolve ==
    \A t \in 1..Len(tasks) :
        /\ ResolutionFailed(tasks[t]) => ~tasks[t].madeDir
        /\ tasks[t].err = "mkdir" => Resolved(tasks[t])

\* C20, amended: a crawl ensures the directory first and resolves the
\* reference after it: the resolution is asked only once the directory
\* exists, the directory is created only by the first step of a crawl, a
\* failure to create it is reported before any resolution, and a crawl
\* whose resolution failed has written no file (it may have created the
\* directory)
C20_DirectoryBeforeResolve ==
    /\ [](\A t \in 1..Len(tasks) :
            LET tk == tasks[t]
            IN  /\ tk.pc = "resolve" \/ Resolved(tk) \/ ResolutionFailed(tk) => dirExists
                /\ tk.err = "mkdir" => ~Resolved(tk) /\ ~ResolutionFailed(tk) /\ ~dirExists
                /\ ResolutionFailed(tk) => tk.paths = <<>> /\ files = NoFiles
                /\ tk.madeDir => dirExists /\ ~Resolved(tk))
    /\ [][dirExists' # dirExists =>
            \E t \in 1..Len(tasks) :
                /\ tasks[t].pc = "ensureDir"
                /\ tasks'[t].pc = "resolve"
                /\ tasks'[t].madeDir]_vars

\* a crawl has returned the error of a failed resolution after it created
\* the directory
C20_Witness ==
    \E t \in 1..Len(tasks) :
        /\ tasks[t].pc = "edit"
        /\ ResolutionFailed(tasks[t])
        /\ tasks[t].err \in {"err", "none", "Chat", "otherChat"}
        /\ tasks[t].madeDir
        /\ dirExists
====
